---- MODULE Spec2Model ----
(***************************************************************************)
(* State-machine model of src/server.js: an HTTP todo service that keeps   *)
(* its whole collection in todos.json and rewrites the file on every       *)
(* mutation.  Every request is a chain of callbacks on the Node event      *)
(* loop: the synchronous part of the http.createServer callback, the       *)
(* request's 'end' (body) event, the completion of fs.readFile and the     *)
(* completion of fs.writeFile.  Each callback is one action; callbacks of  *)
(* different requests interleave freely (Spec, and SpecFair where the      *)
(* event loop is fair), or requests are processed one after the other      *)
(* (SpecSeq, SpecRaw), or the requests processed one after the other are   *)
(* creates and deletes alone (SpecCD).                                     *)
(*                                                                         *)
(* Abstractions: todos.json holds a JSON array of objects whose fields are *)
(* integers, strings and booleans; on such values JSON.stringify followed  *)
(* by JSON.parse returns the same array, so the file is modelled by the    *)
(* array it holds, and a failing readFile / JSON.parse / writeFile is an   *)
(* outcome the environment chooses.  A failed writeFile leaves the file    *)
(* as it was.  Request bodies carry the fields id, title and completed     *)
(* with integer, string and boolean values respectively.                   *)
(***************************************************************************)
EXTENDS Integers, Sequences, FiniteSets, TLC

\* ---------------------------------------------------------------- bounds
MaxReq == 3        \* requests accepted in a run with overlapping requests
MaxInFlight == 2   \* requests whose callbacks may be pending at once
MaxId == 3         \* largest id a create assigns or a body carries
MaxLen == 3        \* largest length of the collection
MaxPending == 1    \* appends to logs.txt pending at once

Slots == 1..MaxInFlight

\* ------------------------------------------------------- JavaScript values
Titles == {"a"}
Digits == {"1", "2", "3"}

DigitVal(c) == CASE c = "1" -> 1 [] c = "2" -> 2 [] c = "3" -> 3 [] OTHER -> 0

\* An object with no own property.
EmptyObj == [f \in {} |-> 0]

\* Values of the query parameter id, as sequences of characters, and
\* String(undefined).
QStrings ==
  {<<>>, <<"1">>, <<"2">>, <<"3">>, <<"a">>, <<"1", "a">>, <<"a", "1">>, <<"-">>}
UndefinedStr == <<"u", "n", "d", "e", "f", "i", "n", "e", "d">>

\* Number of leading decimal digits of s.
RECURSIVE DigitPrefix(_)
DigitPrefix(s) ==
  IF s = <<>> \/ Head(s) \notin Digits THEN 0 ELSE 1 + DigitPrefix(Tail(s))

RECURSIVE DecimalValue(_, _)
DecimalValue(s, k) ==
  IF k = 0 THEN 0 ELSE 10 * DecimalValue(s, k - 1) + DigitVal(s[k])

\* parseInt(string): an optional sign, then the longest prefix of decimal
\* digits; NaN when there is no digit.  Whatever follows the digits is
\* ignored.
ParseInt(s) ==
  LET neg == s # <<>> /\ Head(s) = "-"
      body == IF neg THEN Tail(s) ELSE s
      k == DigitPrefix(body)
  IN  IF k = 0 THEN [nan |-> TRUE, val |-> 0]
      ELSE [nan |-> FALSE,
            val |-> IF neg THEN 0 - DecimalValue(body, k) ELSE DecimalValue(body, k)]

\* ------------------------------------------------------------- requests
Methods == {"GET", "POST", "PUT", "DELETE", "PATCH"}

\* req.url: the path, and the value of the query parameter id when the url
\* has a query string ("/todos/?id=12" is [path |-> "/todos/", q |-> TRUE,
\* id |-> <<"1","2">>]).  hasId is FALSE when the query names no id.
Url(path, q, hasId, id) == [path |-> path, q |-> q, hasId |-> hasId, id |-> id]

Urls ==
  {Url("/todos", FALSE, FALSE, <<>>), Url("/todos", TRUE, TRUE, <<"1">>),
   Url("/other", FALSE, FALSE, <<>>), Url("/todos/", FALSE, FALSE, <<>>)}
  \cup {Url("/todos/", TRUE, TRUE, s) : s \in QStrings}

\* req.url === '/todos'
IsTodos(u) == u.path = "/todos" /\ ~u.q
\* req.url.startsWith('/todos/')
StartsWithTodos(u) == u.path = "/todos/"

\* The if / else-if chain of the server callback.
Route(m, u) ==
  IF IsTodos(u) /\ m = "GET" THEN "LIST"
  ELSE IF StartsWithTodos(u) /\ m = "GET" THEN "GET"
  ELSE IF IsTodos(u) /\ m = "POST" THEN "POST"
  ELSE IF StartsWithTodos(u) /\ m = "PUT" THEN "PUT"
  ELSE IF StartsWithTodos(u) /\ m = "DELETE" THEN "DELETE"
  ELSE "OTHER"

Requests(route) == {x \in Methods \X Urls : Route(x[1], x[2]) = route}

\* parseInt(url.parse(req.url, true).query.id)
QueryId(u) == ParseInt(IF u.hasId THEN u.id ELSE UndefinedStr)

\* The routes the requests take.
Routes == {Route(x[1], x[2]) : x \in Methods \X Urls}

\* What the text of the query parameter id is, read as a decimal numeral
\* with an optional sign: all of it is one ("integer"), it only begins with
\* one ("prefix"), it is something else ("other"), or there is no id in the
\* query ("missing").
Unsigned(s) == IF s # <<>> /\ Head(s) = "-" THEN Tail(s) ELSE s
IdText(u) ==
  IF ~u.hasId THEN "missing"
  ELSE IF Unsigned(u.id) # <<>>
          /\ \A i \in 1..Len(Unsigned(u.id)) : Unsigned(u.id)[i] \in Digits
       THEN "integer"
  ELSE IF Unsigned(u.id) # <<>> /\ Unsigned(u.id)[1] \in Digits THEN "prefix"
  ELSE "other"

\* Request bodies: text that is not JSON, the JSON text null, or a JSON
\* object with any of the fields id, title, completed.
\* The generator below encodes a missing field as id 0, title "<none>" and
\* completed "none"; JsonObject builds the object without that field.
NoTitle == "<none>"
JsonObject(i, t, c) ==
  (IF i = 0 THEN EmptyObj ELSE [id |-> i])
  @@ (IF t = NoTitle THEN EmptyObj ELSE [title |-> t])
  @@ (IF c = "none" THEN EmptyObj ELSE [completed |-> (c = "true")])

Objects ==
  {JsonObject(i, t, c) : i \in 0..MaxId, t \in Titles \cup {"", NoTitle},
                         c \in {"none", "true", "false"}}

Bodies == {[kind |-> "bad", obj |-> EmptyObj], [kind |-> "null", obj |-> EmptyObj]}
          \cup {[kind |-> "obj", obj |-> o] : o \in Objects}

\* JSON.parse(body) throws.
ParseThrows(b) == b.kind = "bad"
\* parsedBody.title throws (a property of null).
TitleThrows(b) == b.kind = "null"
\* !title: the property is missing or the empty string.
TitleMissing(o) == "title" \notin DOMAIN o \/ o.title = ""
\* parsedBody.completed || false
CompletedOrFalse(o) == IF "completed" \in DOMAIN o THEN o.completed ELSE FALSE

\* The try block of the POST handler's 'end' listener up to createTodo:
\* what it answers, or the newTodo it passes on.
ParsePost(b) ==
  IF ParseThrows(b) \/ TitleThrows(b) THEN [res |-> "throw", arg |-> EmptyObj]
  ELSE IF TitleMissing(b.obj) THEN [res |-> "notitle", arg |-> EmptyObj]
  ELSE [res |-> "ok",
        arg |-> [title |-> b.obj.title, completed |-> CompletedOrFalse(b.obj)]]

\* The same for the PUT handler: the whole parsed body is passed on.
ParsePut(b) ==
  IF ParseThrows(b) \/ TitleThrows(b) THEN [res |-> "throw", arg |-> EmptyObj]
  ELSE IF TitleMissing(b.obj) THEN [res |-> "notitle", arg |-> EmptyObj]
  ELSE [res |-> "ok", arg |-> b.obj]

\* What the body is as a request to create or update: text that is not
\* JSON or not an object ("malformed"), an object whose title is missing or
\* empty ("notitle"), or an object with a title ("valid").
BodyText(b) ==
  IF b.kind # "obj" THEN "malformed"
  ELSE IF "title" \notin DOMAIN b.obj \/ b.obj.title = "" THEN "notitle"
  ELSE "valid"

\* ------------------------------------------------------------- repository
Ids(todos) == {todos[i].id : i \in 1..Len(todos)}

\* todos.find / todos.findIndex(todo => todo.id === id): the first match,
\* 0 standing for "none" (JavaScript's -1 / undefined).
FindIndex(todos, id) ==
  IF \E i \in 1..Len(todos) : todos[i].id = id
  THEN CHOOSE i \in 1..Len(todos) :
         todos[i].id = id /\ \A j \in 1..(i - 1) : todos[j].id # id
  ELSE 0

\* Mutant of LastId: the number of todos instead of the last todo's id.
LastIdIsLength(todos) == Len(todos)

\* todos.length > 0 ? todos[todos.length - 1].id : 0
LastId(todos) == IF Len(todos) > 0 THEN todos[Len(todos)].id ELSE 0

\* Mutant of NewTodo: the id depends on the input as well as on the loaded
\* collection.
NewTodoIdFromInput(todos, newTodo) ==
  [id |-> LastId(todos) + (IF CompletedOrFalse(newTodo) THEN 2 ELSE 1),
   title |-> newTodo.title,
   completed |-> CompletedOrFalse(newTodo)]

\* Mutant of NewTodo: the id follows the first todo's id, not the last's.
NewTodoAfterFirst(todos, newTodo) ==
  [id |-> (IF Len(todos) > 0 THEN todos[1].id ELSE 0) + 1,
   title |-> newTodo.title,
   completed |-> CompletedOrFalse(newTodo)]

\* The object createTodo builds.
NewTodo(todos, newTodo) ==
  [id |-> LastId(todos) + 1,
   title |-> newTodo.title,
   completed |-> CompletedOrFalse(newTodo)]

\* Mutant of Merge: { ...updates, ...old }, the old fields win.
MergeOldWins(old, updates) ==
  [f \in DOMAIN old \cup DOMAIN updates |->
     IF f \in DOMAIN old THEN old[f] ELSE updates[f]]

\* { ...old, ...updates }
Merge(old, updates) ==
  [f \in DOMAIN old \cup DOMAIN updates |->
     IF f \in DOMAIN updates THEN updates[f] ELSE old[f]]

\* todos after todos.splice(index, 1)
Splice(todos, index) ==
  [i \in 1..(Len(todos) - 1) |-> IF i < index THEN todos[i] ELSE todos[i + 1]]

\* An Error's message, as the fragments it is made of.  new Error(message,
\* options) takes its message from the first argument alone: a string given
\* as second argument is not an options object and is dropped.
NewError(message, options) == <<message>>

\* err.message.includes('not found')
IncludesNotFound(message) ==
  \E i \in 1..Len(message) : message[i] = "Todo id not found"

TypeErrorMsg == <<"Cannot read properties of undefined">>
ReferenceErrorMsg == <<"err is not defined">>
NoError == <<>>

\* ---------------------------------------------------------------- state
VARIABLES
  file,        \* todos.json: the persisted collection
  req,         \* per request slot: the locals of the request's callbacks
  resp,        \* per request slot: the response sent (status 0: none yet)
  logPending,  \* fs.appendFile promises of the log listener still pending
  up,          \* the server process is running
  accepted,    \* requests accepted so far (counted in runs "overlap")
  assigned,    \* ids that saved creates have returned (kept in runs "cd")
  lastDeleted, \* id removed by a saved delete, 0 once a create is saved
               \* (kept in runs "seq")
  lastSaved    \* the todo the last saved create or update returned, none
               \* once a delete is saved (kept in runs "raw")

vars == <<file, req, resp, logPending, up, accepted, assigned, lastDeleted,
          lastSaved>>

\* The kinds of run: requests overlap and the run ends after MaxReq of them
\* ("overlap"); requests are processed one after the other, in runs of any
\* length ("seq" and "raw", and "cd" where they are creates and deletes
\* alone).
Sequential(run) == run # "overlap"

NoResponse == [status |-> 0, type |-> "none", text |-> <<>>, val |-> <<>>]

\* pc: the callback the request waits for; route .. ret: the locals of its
\* callbacks; idText, bodyText: what the request carried; io, miss, err: how
\* its repository call went; notified: the 'log' events emitted for it.
IdleSlot ==
  [pc |-> "idle", route |-> "none", id |-> 0, arg |-> EmptyObj,
   todos |-> <<>>, ret |-> <<>>, idText |-> "none", bodyText |-> "none",
   io |-> "none", miss |-> FALSE, err |-> NoError, notified |-> 0]

Init ==
  /\ file = <<>>
  /\ req = [r \in Slots |-> IdleSlot]
  /\ resp = [r \in Slots |-> NoResponse]
  /\ logPending = 0
  /\ up = TRUE
  /\ accepted = 0
  /\ assigned = {}
  /\ lastDeleted = 0
  /\ lastSaved = <<>>

Free(r) == req[r].pc \in {"idle", "done"}
InFlight(r) == ~Free(r)

\* A request can be accepted: the process runs and, in a sequential run, no
\* other request is being processed.  Runs with overlapping requests end
\* after MaxReq requests; sequential runs have any length.
CanAccept(run) ==
  /\ up
  /\ \E r \in Slots : Free(r)
  /\ IF Sequential(run) THEN \A r \in Slots : Free(r) ELSE accepted < MaxReq

FreeSlot == CHOOSE r \in Slots : Free(r) /\ \A q \in Slots : Free(q) => r <= q

Text(status, text) == [status |-> status, type |-> "text", text |-> <<text>>, val |-> <<>>]
JsonError(status, message) ==
  [status |-> status, type |-> "error", text |-> message, val |-> <<>>]
JsonTodo(todo) == [status |-> 200, type |-> "todo", text |-> <<>>, val |-> <<todo>>]
JsonTodos(todos) == [status |-> 200, type |-> "todos", text |-> <<>>, val |-> todos]
\* res.end(JSON.stringify(undefined)): a 200 with no body.
EmptyOk == [status |-> 200, type |-> "empty", text |-> <<>>, val |-> <<>>]

\* ------------------------------------------------- repository functions
\* What readTodos resolves to: the parsed array, or undefined when readFile
\* or JSON.parse threw (the catch logs the error and returns nothing).
ReadTodos(ok) == [undef |-> ~ok, arr |-> IF ok THEN file ELSE <<>>]

Rejected(message) == [ok |-> FALSE, err |-> message, todos |-> <<>>, ret |-> <<>>]
Resolved(todos, ret) == [ok |-> TRUE, err |-> NoError, todos |-> todos, ret |-> <<ret>>]

\* getTodoById after its await: todos.find on undefined is a TypeError; the
\* throw for a missing todo names the undeclared variable err, so what is
\* thrown is a ReferenceError.
GetTodoById(t, id) ==
  IF t.undef THEN Rejected(TypeErrorMsg)
  ELSE IF FindIndex(t.arr, id) # 0
       THEN Resolved(t.arr, t.arr[FindIndex(t.arr, id)])
       ELSE Rejected(ReferenceErrorMsg)

\* Mutant of CreateTodo: the new todo is put at the front of the array.
CreateTodoAtFront(t, newTodo) ==
  IF t.undef THEN Rejected(NewError("Error creating todo:", TypeErrorMsg))
  ELSE Resolved(<<NewTodo(t.arr, newTodo)>> \o t.arr, NewTodo(t.arr, newTodo))

\* createTodo between its two awaits: the array to save and the new todo.
CreateTodo(t, newTodo) ==
  IF t.undef THEN Rejected(NewError("Error creating todo:", TypeErrorMsg))
  ELSE Resolved(Append(t.arr, NewTodo(t.arr, newTodo)), NewTodo(t.arr, newTodo))

\* Mutant of UpdateTodo: the merged todo is returned, the loaded collection
\* is what is saved.
UpdateTodoKeepsLoaded(t, id, updates) ==
  IF t.undef THEN Rejected(NewError("Error updating todo:", TypeErrorMsg))
  ELSE IF FindIndex(t.arr, id) = 0
       THEN Rejected(NewError("Error updating todo:", <<"Todo id not found">>))
       ELSE Resolved(t.arr, Merge(t.arr[FindIndex(t.arr, id)], updates))

\* updateTodo between its two awaits.
UpdateTodo(t, id, updates) ==
  IF t.undef THEN Rejected(NewError("Error updating todo:", TypeErrorMsg))
  ELSE IF FindIndex(t.arr, id) = 0
       THEN Rejected(NewError("Error updating todo:", <<"Todo id not found">>))
       ELSE LET index == FindIndex(t.arr, id)
                merged == Merge(t.arr[index], updates)
            IN  Resolved([t.arr EXCEPT ![index] = merged], merged)

\* deleteTodo between its two awaits.
DeleteTodo(t, id) ==
  IF t.undef THEN Rejected(NewError("Error deleting todo:", TypeErrorMsg))
  ELSE IF FindIndex(t.arr, id) = 0
       THEN Rejected(NewError("Error deleting todo:", <<"Todo id not found">>))
       ELSE LET index == FindIndex(t.arr, id)
            IN  Resolved(Splice(t.arr, index), t.arr[index])

\* The error a failed fs.writeFile leaves the repository function with.
WriteError(prefix) == NewError(prefix, <<"write failed">>)

\* ------------------------------------------------------------- responses
InvalidId == Text(400, "Invalid id")

\* .catch of the GET /todos/ handler
GetErrorResponse(err) == Text(500, "Failed to read todo")
\* .catch of the POST handler
PostErrorResponse(err) == Text(500, "Failed to create newtodo")
\* inner catch of the PUT handler
PutErrorResponse(err) == JsonError(404, err)
\* .catch of the DELETE handler
DeleteErrorResponse(err) ==
  IF IncludesNotFound(err) THEN JsonError(404, <<"Todo not found">>)
  ELSE JsonError(500, <<"Failed to delete todo">>)

\* ---------------------------------------------------------------- steps
\* logs.emit('log', ...): the listener runs at once and starts an append.
Notify == logPending < MaxPending /\ logPending' = logPending + 1

Start(route, id, pc) ==
  [IdleSlot EXCEPT !.pc = pc, !.route = route, !.id = id, !.notified = 1]

Enter(run, slot, response) ==
  /\ req' = [req EXCEPT ![FreeSlot] = slot]
  /\ resp' = [resp EXCEPT ![FreeSlot] = response]
  /\ accepted' = IF Sequential(run) THEN accepted ELSE accepted + 1

\* The request's last callback: the response is sent and the locals of the
\* callbacks are gone.  io, miss and err record how the repository call went:
\* whether the file was read and written, whether the load succeeded and
\* held no todo with the id asked for, and the error the call rejected with.
Reply(r, response, io, miss, err) ==
  /\ req' = [req EXCEPT ![r] = [IdleSlot EXCEPT !.pc = "done",
                                                !.route = req[r].route,
                                                !.idText = req[r].idText,
                                                !.bodyText = req[r].bodyText,
                                                !.notified = req[r].notified,
                                                !.io = io, !.miss = miss,
                                                !.err = err]]
  /\ resp' = [resp EXCEPT ![r] = response]

\* The process has ended with request r unanswered: the locals of its
\* callbacks are gone and no callback of it will run.
Lost(r) ==
  [IdleSlot EXCEPT !.pc = "lost", !.route = req[r].route,
                   !.idText = req[r].idText, !.bodyText = req[r].bodyText,
                   !.notified = req[r].notified]

\* The body b was rejected with a response.
ReplyBody(r, b, response) ==
  /\ req' = [req EXCEPT ![r] = [IdleSlot EXCEPT !.pc = "done",
                                                !.route = req[r].route,
                                                !.idText = req[r].idText,
                                                !.bodyText = BodyText(b),
                                                !.notified = req[r].notified]]
  /\ resp' = [resp EXCEPT ![r] = response]

\* The body b was accepted and the repository function starts its read.
StartRead(r, b, arg) ==
  /\ req' = [req EXCEPT ![r] = [@ EXCEPT !.pc = "read", !.arg = arg,
                                         !.bodyText = BodyText(b)]]
  /\ UNCHANGED resp

\* The read has completed and a write is started.
StartWrite(r, out) ==
  /\ req' = [req EXCEPT ![r] = [@ EXCEPT !.pc = "write", !.arg = EmptyObj,
                                         !.todos = out.todos,
                                         !.ret = out.ret, !.io = "ok"]]
  /\ UNCHANGED resp

At(r, route, pc) == up /\ req[r].route = route /\ req[r].pc = pc

\* The id check of the three by-id handlers.
ById(run, route, u, pc) ==
  IF QueryId(u).nan
  THEN Enter(run, [Start(route, 0, "done") EXCEPT !.idText = IdText(u)], InvalidId)
  ELSE Enter(run, [Start(route, QueryId(u).val, pc) EXCEPT !.idText = IdText(u)],
             NoResponse)

\* GET /todos
AcceptList(run) ==
    /\ "LIST" \in Routes
    /\ CanAccept(run)
    /\ Notify
    /\ Enter(run, Start("LIST", 0, "read"), NoResponse)
    /\ UNCHANGED <<file, up, assigned, lastDeleted, lastSaved>>

ListRead(r) ==
  /\ At(r, "LIST", "read")
  /\ \/ Reply(r, JsonTodos(ReadTodos(TRUE).arr), "ok", FALSE, NoError)
     \/ Reply(r, EmptyOk, "readfail", FALSE, NoError)
  /\ UNCHANGED <<file, logPending, up, accepted, assigned, lastDeleted, lastSaved>>

\* GET /todos/?id=N
AcceptGet(run) ==
  \E x \in Requests("GET") :
    /\ CanAccept(run)
    /\ Notify
    /\ ById(run, "GET", x[2], "read")
    /\ UNCHANGED <<file, up, assigned, lastDeleted, lastSaved>>

GetRead(r) ==
  /\ At(r, "GET", "read")
  /\ \E ok \in BOOLEAN :
       LET out == GetTodoById(ReadTodos(ok), req[r].id)
       IN  IF out.ok
           THEN Reply(r, JsonTodo(out.ret[1]), "ok", FALSE, NoError)
           ELSE Reply(r, GetErrorResponse(out.err),
                      IF ok THEN "ok" ELSE "readfail", ok, out.err)
  /\ UNCHANGED <<file, logPending, up, accepted, assigned, lastDeleted, lastSaved>>

\* POST /todos
AcceptPost(run) ==
    /\ "POST" \in Routes
    /\ CanAccept(run)
    /\ Notify
    /\ Enter(run, Start("POST", 0, "body"), NoResponse)
    /\ UNCHANGED <<file, up, assigned, lastDeleted, lastSaved>>

\* req.on('end') of the POST handler
PostBody(r) ==
  /\ At(r, "POST", "body")
  /\ \E b \in Bodies :
       IF ParsePost(b).res = "throw"
       THEN ReplyBody(r, b, Text(400, "Invalid request body"))
       ELSE IF ParsePost(b).res = "notitle"
       THEN ReplyBody(r, b, Text(400, "Invalid title"))
       ELSE StartRead(r, b, ParsePost(b).arg)
  /\ UNCHANGED <<file, logPending, up, accepted, assigned, lastDeleted, lastSaved>>

CreateRead(r) ==
  /\ At(r, "POST", "read")
  /\ \E ok \in BOOLEAN :
       LET out == CreateTodo(ReadTodos(ok), req[r].arg)
       IN  IF out.ok
           THEN /\ Len(out.todos) <= MaxLen
                /\ out.ret[1].id <= MaxId
                /\ StartWrite(r, out)
           ELSE Reply(r, PostErrorResponse(out.err), "readfail", FALSE, out.err)
  /\ UNCHANGED <<file, logPending, up, accepted, assigned, lastDeleted, lastSaved>>

CreateWrite(r, run) ==
  /\ At(r, "POST", "write")
  /\ \/ /\ file' = req[r].todos
        /\ Reply(r, JsonTodo(req[r].ret[1]), "ok", FALSE, NoError)
        /\ assigned' = IF run = "cd" THEN assigned \cup {req[r].ret[1].id}
                       ELSE assigned
        /\ lastDeleted' = 0
        /\ lastSaved' = IF run = "raw" THEN req[r].ret ELSE lastSaved
     \/ /\ Reply(r, PostErrorResponse(WriteError("Error creating todo:")),
                 "writefail", FALSE, WriteError("Error creating todo:"))
        /\ UNCHANGED <<file, assigned, lastDeleted, lastSaved>>
  /\ UNCHANGED <<logPending, up, accepted>>

\* PUT /todos/?id=N
AcceptPut(run) ==
  \E x \in Requests("PUT") :
    /\ CanAccept(run)
    /\ Notify
    /\ ById(run, "PUT", x[2], "body")
    /\ UNCHANGED <<file, up, assigned, lastDeleted, lastSaved>>

\* req.on('end') of the PUT handler
PutBody(r) ==
  /\ At(r, "PUT", "body")
  /\ \E b \in Bodies :
       IF ParsePut(b).res = "throw"
       THEN ReplyBody(r, b, JsonError(400, <<"Invalid JSON">>))
       ELSE IF ParsePut(b).res = "notitle"
       THEN ReplyBody(r, b, JsonError(400, <<"Title is requireed">>))
       ELSE StartRead(r, b, ParsePut(b).arg)
  /\ UNCHANGED <<file, logPending, up, accepted, assigned, lastDeleted, lastSaved>>

\* req.on('error') of the PUT handler
PutError(r) ==
  /\ At(r, "PUT", "body")
  /\ Reply(r, Text(500, "Failed to process request"), "none", FALSE, NoError)
  /\ UNCHANGED <<file, logPending, up, accepted, assigned, lastDeleted, lastSaved>>

UpdateRead(r) ==
  /\ At(r, "PUT", "read")
  /\ \E ok \in BOOLEAN :
       LET out == UpdateTodo(ReadTodos(ok), req[r].id, req[r].arg)
       IN  IF out.ok
           THEN StartWrite(r, out)
           ELSE Reply(r, PutErrorResponse(out.err),
                      IF ok THEN "ok" ELSE "readfail", ok, out.err)
  /\ UNCHANGED <<file, logPending, up, accepted, assigned, lastDeleted, lastSaved>>

UpdateWrite(r, run) ==
  /\ At(r, "PUT", "write")
  /\ \/ /\ file' = req[r].todos
        /\ Reply(r, JsonTodo(req[r].ret[1]), "ok", FALSE, NoError)
        /\ lastSaved' = IF run = "raw" THEN req[r].ret ELSE lastSaved
     \/ /\ Reply(r, PutErrorResponse(WriteError("Error updating todo:")),
                 "writefail", FALSE, WriteError("Error updating todo:"))
        /\ UNCHANGED <<file, lastSaved>>
  /\ UNCHANGED <<logPending, up, accepted, assigned, lastDeleted>>

\* DELETE /todos/?id=N
AcceptDelete(run) ==
  \E x \in Requests("DELETE") :
    /\ CanAccept(run)
    /\ Notify
    /\ ById(run, "DELETE", x[2], "read")
    /\ UNCHANGED <<file, up, assigned, lastDeleted, lastSaved>>

DeleteRead(r) ==
  /\ At(r, "DELETE", "read")
  /\ \E ok \in BOOLEAN :
       LET out == DeleteTodo(ReadTodos(ok), req[r].id)
       IN  IF out.ok
           THEN StartWrite(r, out)
           ELSE Reply(r, DeleteErrorResponse(out.err),
                      IF ok THEN "ok" ELSE "readfail", ok, out.err)
  /\ UNCHANGED <<file, logPending, up, accepted, assigned, lastDeleted, lastSaved>>

DeleteWrite(r, run) ==
  /\ At(r, "DELETE", "write")
  /\ \/ /\ file' = req[r].todos
        /\ Reply(r, JsonTodo(req[r].ret[1]), "ok", FALSE, NoError)
        /\ lastDeleted' = IF run = "seq" THEN req[r].ret[1].id ELSE lastDeleted
        /\ lastSaved' = <<>>
     \/ /\ Reply(r, DeleteErrorResponse(WriteError("Error deleting todo:")),
                 "writefail", FALSE, WriteError("Error deleting todo:"))
        /\ UNCHANGED <<file, lastDeleted, lastSaved>>
  /\ UNCHANGED <<logPending, up, accepted, assigned>>

\* Any other method and url: no notification, 404.
AcceptOther(run) ==
    /\ "OTHER" \in Routes
    /\ CanAccept(run)
    /\ Enter(run, [IdleSlot EXCEPT !.pc = "done", !.route = "OTHER"],
             Text(404, "Endpoint not found"))
    /\ UNCHANGED <<file, logPending, up, assigned, lastDeleted, lastSaved>>

\* ------------------------------------------------------------- log sink
\* logs.txt was appended to.
LogAppended ==
  /\ up /\ logPending > 0
  /\ logPending' = logPending - 1
  /\ UNCHANGED <<file, req, resp, up, accepted, assigned, lastDeleted, lastSaved>>

\* The append failed.  fs is the promises API, so the function passed as
\* third argument is taken for the options and never called: the promise
\* rejects with no handler.  What an unhandled rejection does depends on the
\* runtime: a warning (Node before 15, or --unhandled-rejections=warn) or
\* the end of the process (the default since Node 15).
LogRejectedWarn ==
  /\ up /\ logPending > 0
  /\ logPending' = logPending - 1
  /\ UNCHANGED <<file, req, resp, up, accepted, assigned, lastDeleted, lastSaved>>

LogRejectedExit ==
  /\ up /\ logPending > 0
  /\ logPending' = logPending - 1
  /\ up' = FALSE
  /\ req' = [r \in Slots |-> IF InFlight(r) THEN Lost(r) ELSE req[r]]
  /\ UNCHANGED <<file, resp, accepted, assigned, lastDeleted, lastSaved>>

Callback(r, run) ==
  \/ ListRead(r)
  \/ GetRead(r)
  \/ PostBody(r)
  \/ CreateRead(r)
  \/ CreateWrite(r, run)
  \/ PutBody(r)
  \/ PutError(r)
  \/ UpdateRead(r)
  \/ UpdateWrite(r, run)
  \/ DeleteRead(r)
  \/ DeleteWrite(r, run)

LogSink == LogAppended \/ LogRejectedWarn

\* Requests overlap.
Next ==
  \/ AcceptList("overlap")
  \/ AcceptGet("overlap")
  \/ AcceptPost("overlap")
  \/ AcceptPut("overlap")
  \/ AcceptDelete("overlap")
  \/ AcceptOther("overlap")
  \/ \E r \in Slots : Callback(r, "overlap")
  \/ LogSink
  \/ LogRejectedExit

Spec == Init /\ [][Next]_vars

\* Requests are processed one after the other.
NextSeq ==
  \/ AcceptList("seq")
  \/ AcceptGet("seq")
  \/ AcceptPost("seq")
  \/ AcceptPut("seq")
  \/ AcceptDelete("seq")
  \/ AcceptOther("seq")
  \/ \E r \in Slots : Callback(r, "seq")
  \/ LogSink

SpecSeq == Init /\ [][NextSeq]_vars

\* Requests are processed one after the other, and what the last saved
\* create or update returned is kept.
NextRaw ==
  \/ AcceptList("raw")
  \/ AcceptGet("raw")
  \/ AcceptPost("raw")
  \/ AcceptPut("raw")
  \/ AcceptDelete("raw")
  \/ AcceptOther("raw")
  \/ \E r \in Slots : Callback(r, "raw")
  \/ LogSink

SpecRaw == Init /\ [][NextRaw]_vars

\* Creates and deletes are processed one after the other.
NextCD ==
  \/ AcceptPost("cd")
  \/ AcceptDelete("cd")
  \/ \E r \in Slots :
       \/ PostBody(r)
       \/ CreateRead(r)
       \/ CreateWrite(r, "cd")
       \/ DeleteRead(r)
       \/ DeleteWrite(r, "cd")
  \/ LogSink

SpecCD == Init /\ [][NextCD]_vars

\* Requests overlap and the event loop is fair: a callback that is due (the
\* request's 'end' event, a completed readFile or writeFile) is run.
Fairness == \A r \in Slots : WF_vars(Callback(r, "overlap"))

SpecFair == Spec /\ Fairness

\* ---------------------------------------------------------------- claims
ByIdRoutes == {"GET", "PUT", "DELETE"}
Answered(r) == req[r].pc = "done"

StrictlyIncreasing(todos) ==
  \A i, j \in 1..Len(todos) : i < j => todos[i].id < todos[j].id

\* C1: a DELETE for a numeric id that no todo of the readable file has is
\* answered 404 {"error":"Todo not found"}.
C1_DeleteMissingIs404 ==
  \A r \in Slots :
    (Answered(r) /\ req[r].route = "DELETE" /\ req[r].miss)
      => resp[r] = JsonError(404, <<"Todo not found">>)

\* C2: with requests processed one after the other from an empty collection,
\* no two todos of the persisted collection have the same id.
C2_UniqueIds ==
  \A i, j \in 1..Len(file) : i # j => file[i].id # file[j].id

\* A step in which the create of request r is saved and answered 200.
CreateSaved(r) ==
  req[r].route = "POST" /\ req[r].pc = "write" /\ resp'[r].status = 200

\* C3: with creates and deletes processed one after the other, a create
\* never assigns an id that an earlier create has assigned.
C3_IdNeverReused ==
  [][\A r \in Slots :
       CreateSaved(r) => req[r].ret[1].id \notin assigned]_vars

\* C3 as amended: with creates and deletes processed one after the other,
\* the id a create assigns is larger than every id in the collection at that
\* time.
C3_IdAboveCollection ==
  [][\A r \in Slots :
       CreateSaved(r) => \A k \in Ids(file) : k < req[r].ret[1].id]_vars

\* A create was answered 200 with an id above a gap that a delete has left.
C3_Witness ==
  \E r \in Slots :
    /\ Answered(r) /\ req[r].route = "POST" /\ resp[r].status = 200
    /\ \E k \in assigned : k \notin Ids(file) /\ k < resp[r].val[1].id

\* C4: a request during which the load or the save of the file failed is
\* answered 500.
C4_StorageFailureIs500 ==
  \A r \in Slots :
    (Answered(r) /\ req[r].io \in {"readfail", "writefail"})
      => resp[r].status = 500

\* C5: the completion of an append to the log, failed or not, leaves the
\* server running and the requests, their responses and the persisted
\* collection as they were.
C5_LogFailureIsolated ==
  [][logPending' < logPending => (up' /\ UNCHANGED <<file, req, resp>>)]_vars

\* A step in which the repository function of request r, of the given
\* route, has loaded the collection and goes on to save.
Loaded(r, route) ==
  req[r].route = route /\ req[r].pc = "read" /\ req'[r].pc = "write"

\* C6: on a collection in strictly increasing id order, create returns a
\* todo whose id is larger than every id of the collection, with the title
\* asked for, and with completed false when the body omits completed.
C6_CreateAboveAll ==
  [][\A r \in Slots :
       /\ (req[r].route = "POST" /\ req[r].pc = "body" /\ req'[r].pc = "read")
            => \A b \in Bodies :
                 (BodyText(b) = "valid" /\ ParsePost(b).arg = req'[r].arg
                    /\ "completed" \notin DOMAIN b.obj)
                   => req'[r].arg.completed = FALSE
       /\ (Loaded(r, "POST") /\ StrictlyIncreasing(file))
            => /\ \A k \in Ids(file) : k < req'[r].ret[1].id
               /\ req'[r].ret[1].title = req[r].arg.title
               /\ req'[r].ret[1].completed = req[r].arg.completed
       /\ CreateSaved(r) => resp'[r] = JsonTodo(req[r].ret[1])]_vars

\* A create has loaded a collection of two todos with increasing ids and
\* appended its todo, completed false, with a larger id.
C6_Witness ==
  \E r \in Slots :
    /\ req[r].route = "POST" /\ req[r].pc = "write"
    /\ Len(req[r].todos) = 3
    /\ req[r].todos[1].id < req[r].todos[2].id
    /\ req[r].todos[2].id < req[r].ret[1].id
    /\ req[r].todos[3] = req[r].ret[1]
    /\ req[r].ret[1].completed = FALSE

\* C7: getById, update and delete for an id that no todo of the loaded
\* collection has fail with a not-found error, return no todo and leave the
\* persisted collection as it was.
C7_MissingIdIsNotFound ==
  [][\A r \in Slots :
       (/\ req[r].route \in ByIdRoutes
        /\ req[r].pc = "read"
        /\ req'[r].pc # "read"
        /\ req'[r].io = "ok"
        /\ FindIndex(file, req[r].id) = 0)
         => /\ Answered(r)'
            /\ IncludesNotFound(req'[r].err)
            /\ resp'[r].type # "todo"
            /\ file' = file]_vars

\* C8: delete of an existing id removes exactly that one entry, keeps the
\* others in their order, saves and returns the removed entry; a getById
\* for the id that follows with no create in between returns no todo.
C8_DeleteThenGetIsNotFound ==
  [][\A r \in Slots :
       /\ Loaded(r, "DELETE")
            => \E i \in 1..Len(file) :
                 /\ file[i].id = req[r].id
                 /\ req'[r].ret = <<file[i]>>
                 /\ req'[r].todos = Splice(file, i)
       /\ (req[r].route = "DELETE" /\ req[r].pc = "write"
             /\ resp'[r].status = 200)
            => file' = req[r].todos /\ resp'[r] = JsonTodo(req[r].ret[1])
       /\ (req[r].route = "GET" /\ req[r].pc = "read" /\ Answered(r)'
             /\ req[r].id = lastDeleted)
            => resp'[r].type # "todo"]_vars

\* C9: update of an existing id replaces, in the first todo with that id,
\* the fields the updates carry and no other, leaves every other todo and
\* the order alone, and saves and returns the merged todo.
C9_UpdateIsShallowMerge ==
  [][\A r \in Slots :
       /\ Loaded(r, "PUT")
            => LET i == FindIndex(file, req[r].id)
                   old == file[i]
                   new == req'[r].todos[i]
                   updates == req[r].arg
               IN  /\ i # 0
                   /\ Len(req'[r].todos) = Len(file)
                   /\ \A j \in 1..Len(file) : j # i => req'[r].todos[j] = file[j]
                   /\ DOMAIN new = DOMAIN old \cup DOMAIN updates
                   /\ \A f \in DOMAIN updates : new[f] = updates[f]
                   /\ \A f \in DOMAIN old \ DOMAIN updates : new[f] = old[f]
                   /\ req'[r].ret = <<new>>
       /\ (req[r].route = "PUT" /\ req[r].pc = "write" /\ Answered(r)')
            => IF resp'[r].status = 200
               THEN file' = req[r].todos /\ resp'[r] = JsonTodo(req[r].ret[1])
               ELSE file' = file]_vars

\* An update that carried completed false and no id has been merged into a
\* completed todo of a collection of two: completed is replaced, the id kept.
C9_Witness ==
  \E r \in Slots :
    /\ req[r].route = "PUT" /\ req[r].pc = "write"
    /\ Len(file) = 2 /\ Len(req[r].todos) = 2
    /\ \E i \in 1..2 :
         /\ req[r].todos[i] = req[r].ret[1]
         /\ req[r].todos[i].id = file[i].id
         /\ file[i].completed /\ ~req[r].todos[i].completed
         /\ req[r].todos[3 - i] = file[3 - i]
         /\ file[1].id # file[2].id

\* A request that reached the repository, or was answered without it.
TouchedFile(r) == req[r].pc \in {"read", "write"} \/ req[r].io # "none"

\* C10: a by-id request whose id is not a decimal numeral, or is missing,
\* and a POST or PUT whose body is malformed or has no title, is answered
\* 400 without a load or a save.
C10_NonNumericIdIs400 ==
  \A r \in Slots :
    /\ (req[r].route \in ByIdRoutes /\ req[r].idText # "integer")
         => Answered(r) /\ resp[r] = InvalidId /\ ~TouchedFile(r)
    /\ (req[r].route \in {"POST", "PUT"}
          /\ req[r].bodyText \in {"malformed", "notitle"})
         => Answered(r) /\ resp[r].status = 400 /\ ~TouchedFile(r)

\* C10 apart from the ids that begin with a decimal numeral: a by-id request
\* whose id has no numeral at its start, or is missing, and a POST or PUT
\* whose body is malformed or has no title, is answered 400 without a load
\* or a save.
C10_InvalidInputIs400 ==
  \A r \in Slots :
    /\ (req[r].route \in ByIdRoutes /\ req[r].idText \in {"other", "missing"})
         => Answered(r) /\ resp[r] = InvalidId /\ ~TouchedFile(r)
    /\ (req[r].route \in {"POST", "PUT"}
          /\ req[r].bodyText \in {"malformed", "notitle"})
         => Answered(r) /\ resp[r].status = 400 /\ ~TouchedFile(r)

\* A PUT with a body whose title is empty was answered 400 while another
\* request was answered 400 for its id.
C10_Witness ==
  \E r, q \in Slots :
    /\ req[r].route = "PUT" /\ req[r].bodyText = "notitle"
    /\ resp[r].status = 400
    /\ req[q].route \in ByIdRoutes /\ req[q].idText = "other"
    /\ resp[q] = InvalidId

\* C11: every request the server has observed, whatever its method and
\* path, has caused exactly one notification to the log sink, emitted before
\* its response is sent.
C11_OneNotificationPerRequest ==
  \A r \in Slots : req[r].route # "none" => req[r].notified = 1

\* C12: with the due callbacks of every request run, every request the
\* server has accepted is eventually answered.
C12_EveryRequestAnswered ==
  \A r \in Slots : InFlight(r) ~> Answered(r)

\* C12 apart from the end of the process: with the due callbacks of every
\* request run, every request the server has accepted is eventually
\* answered, or the process has ended.
C12_AnsweredUnlessProcessEnds ==
  \A r \in Slots : InFlight(r) ~> (Answered(r) \/ ~up)

\* The collection a create at its save had loaded.
LoadedByCreate(r) == SubSeq(req[r].todos, 1, Len(req[r].todos) - 1)

\* Two creates have loaded the same collection and neither has saved.
Racing(r, q) ==
  /\ r # q
  /\ req[r].route = "POST" /\ req[r].pc = "write"
  /\ req[q].route = "POST" /\ req[q].pc = "write"
  /\ LoadedByCreate(r) = LoadedByCreate(q)

\* C13: two creates in flight that have both loaded the collection before
\* either has saved have computed the same new id, and each one whose save
\* succeeds is answered 200 with the todo of that id.
C13_ConcurrentCreatesSameId ==
  [][\A r, q \in Slots :
       Racing(r, q)
         => /\ req[r].ret[1].id = req[q].ret[1].id
            /\ resp'[r].status = 200
                 => /\ resp'[r] = JsonTodo(req[r].ret[1])
                    /\ resp'[r].val[1].id = req[q].ret[1].id]_vars

\* The only two requests of the run are creates, and both have been
\* answered 200 with the same id.
C13_Witness ==
  /\ accepted = 2
  /\ \E r, q \in Slots :
       /\ r # q
       /\ req[r].route = "POST" /\ Answered(r) /\ resp[r].status = 200
       /\ req[q].route = "POST" /\ Answered(q) /\ resp[q].status = 200
       /\ resp[r].val[1].id = resp[q].val[1].id

MutatingRoutes == {"POST", "PUT", "DELETE"}

\* C14: a mutating request whose save succeeds replaces the persisted
\* collection by the collection it loaded with its own change applied,
\* whatever other requests have saved since it loaded; an update's merged
\* todo is in the saved collection; and the collections that other requests
\* are about to save are not affected by the save.
C14_LastSaveWins ==
  [][\A r \in Slots :
       (req[r].route \in MutatingRoutes /\ req[r].pc = "write"
          /\ resp'[r].status = 200)
         => /\ file' = req[r].todos
            /\ req[r].route = "PUT"
                 => \E i \in 1..Len(file') : file'[i] = resp'[r].val[1]
            /\ \A q \in Slots \ {r} :
                 req[q].pc = "write" => req'[q].todos = req[q].todos]_vars

\* After a create, an update and a delete of the created todo were both
\* answered 200, and the todo whose deletion was acknowledged is in the
\* persisted collection.
C14_Witness ==
  /\ accepted = 3
  /\ Len(file) = 1
  /\ \E r, q \in Slots :
       /\ req[r].route = "DELETE" /\ Answered(r) /\ resp[r].status = 200
       /\ req[q].route = "PUT" /\ Answered(q) /\ resp[q].status = 200
       /\ resp[r].val[1].id = file[1].id
       /\ resp[q].val[1] = file[1]

\* C15: create gives its todo the id of the last element of the loaded
\* collection plus 1, or 1 when the collection is empty, with the title and
\* the completed value asked for (false for a body that carries none);
\* it appends the todo to the loaded collection, whose entries and order it
\* keeps; the collection so built is what is saved, and the todo is returned.
C15_CreateAppendsLastIdPlusOne ==
  [][\A r \in Slots :
       /\ (req[r].route = "POST" /\ req[r].pc = "body" /\ req'[r].pc = "read"
              /\ \E b \in Bodies :
                   /\ BodyText(b) = "valid" /\ ParsePost(b).arg = req'[r].arg
                   /\ "completed" \notin DOMAIN b.obj)
            => ~req'[r].arg.completed
       /\ Loaded(r, "POST")
            => LET n == Len(file)
                   new == [id |-> IF n = 0 THEN 1 ELSE file[n].id + 1,
                           title |-> req[r].arg.title,
                           completed |-> req[r].arg.completed]
               IN  /\ req'[r].ret = <<new>>
                   /\ Len(req'[r].todos) = n + 1
                   /\ \A i \in 1..n : req'[r].todos[i] = file[i]
                   /\ req'[r].todos[n + 1] = new
       /\ CreateSaved(r)
            => file' = req[r].todos /\ resp'[r] = JsonTodo(req[r].ret[1])]_vars

\* A create has loaded a collection of two whose last id is not its largest
\* and has appended a todo with the last id plus 1.
C15_Witness ==
  \E r \in Slots :
    /\ req[r].route = "POST" /\ req[r].pc = "write"
    /\ Len(req[r].todos) = 3
    /\ req[r].todos[2].id < req[r].todos[1].id
    /\ req[r].todos[3].id = req[r].todos[2].id + 1
    /\ req[r].todos[3] = req[r].ret[1]

\* A step in which the read of request r, of the given route, finds the
\* file readable and the request is answered.
ReadAnswered(r, route) ==
  /\ req[r].route = route /\ req[r].pc = "read"
  /\ Answered(r)' /\ req'[r].io = "ok"

\* C16: with requests processed one after the other, a GET for the id of
\* the todo that the last saved create or update returned, with no delete
\* saved since, returns exactly that todo; and GET /todos returns the
\* collection as it was last saved.
C16_ReadAfterWrite ==
  [][\A r \in Slots :
       /\ (ReadAnswered(r, "GET") /\ lastSaved # <<>>
             /\ req[r].id = lastSaved[1].id)
            => resp'[r] = JsonTodo(lastSaved[1])
       /\ ReadAnswered(r, "LIST") => resp'[r] = JsonTodos(file)]_vars

\* C16 for collections in which no two todos have the same id.
C16_ReadAfterWriteUniqueIds ==
  [][\A r \in Slots :
       /\ (ReadAnswered(r, "GET") /\ lastSaved # <<>> /\ C2_UniqueIds
             /\ req[r].id = lastSaved[1].id)
            => resp'[r] = JsonTodo(lastSaved[1])
       /\ ReadAnswered(r, "LIST") => resp'[r] = JsonTodos(file)]_vars

\* C17: the todo an update computes, saves and returns has the id the
\* request asked for, and the collection to save has the ids of the loaded
\* collection.
C17_UpdateKeepsId ==
  [][\A r \in Slots :
       Loaded(r, "PUT")
         => /\ req'[r].ret[1].id = req[r].id
            /\ Ids(req'[r].todos) = Ids(file)]_vars

====
